---- MODULE Spec2Model ----
(***************************************************************************)
(* Model of src/Ehyd/main.py: a single-pass hydrology pipeline.  Each      *)
(* stage of the script is a pure function of the dictionaries built by the *)
(* stage before; every stage is modelled by operators translated from its  *)
(* code and by a specification that draws the stage's inputs from bounded  *)
(* sets and applies it.                                                    *)
(*                                                                         *)
(* Scaling.  The calendar is scaled down: the span 1960-01..2021-12 (744   *)
(* month starts) is the months 1..NumMonths, a year has YearLen months     *)
(* instead of 12, and a month has the days of Days.  Floating point values *)
(* are exact rationals [n, d]; np.nan is the value nan and the string      *)
(* "NaN" written by fillna("NaN") is the value NaNStr.                     *)
(***************************************************************************)
EXTENDS Integers, Sequences, FiniteSets, TLC

VARIABLES
    pc,         \* name of the stage the running specification is at
    data_lines, \* to_dataframe: the lines of a file after its "Werte:" line
    line_no,    \* to_dataframe: number of lines the row loop has consumed
    data,       \* to_dataframe: the [date, value] records accepted so far
    dataframe,  \* to_dataframe: the file's entry of dataframes_dict, if any
    df_dict,    \* process_dataframes: the series being processed (rows)
    processed,  \* process_dataframes: the series it returns
    gw_row,     \* find_nearest_coordinates: the target point
    coord_df,   \* find_nearest_coordinates: the rows (x, y) of df, by position
    k_nearest,  \* find_nearest_coordinates: the argument k
    nearest,    \* find_nearest_coordinates: the rows returned, as positions in df
    series,     \* nan_imputer: the dataframe of the input dictionary (index, Values)
    filled,     \* the dataframe of the filled dictionary, as the script rewrites it
    unpadded,   \* history: that dataframe as it was when the zero padding began
    param_idx,          \* sarima_optimizer_aic: position of param in pdq
    seasonal_idx,       \* sarima_optimizer_aic: position of param_seasonal in seasonal_pdq
    best_aic,           \* sarima_optimizer_aic: lowest AIC so far
    best_order,         \* sarima_optimizer_aic: its order
    best_seasonal_order,\* sarima_optimizer_aic: its seasonal order
    fit_log,            \* history: the pairs tried so far, each with what its fit gave
    target_corrs,       \* feature selection: per dataframe, corr()['Values'].drop('Values')
    threshold,          \* feature selection: the argument threshold
    frame_idx,          \* feature selection: dataframes the loop has consumed
    feature_corr_sum,   \* feature selection: the running sum, None before the first
    feature_count,      \* feature selection: the running count
    selected_features,  \* feature selection: the list returned
    station_files,      \* the rows read from the files of each network: station key -> rows
    filled_dicts,       \* the filled dictionaries, by prefix: station key -> dataframe
    pkl_files,          \* the directory Ehyd/pkl_files: file name -> bytes written
    data_df,            \* the rows of 'data': a station id and its nearest ids per network
    row_no,             \* new_dataframes: rows of 'data' the loop has consumed
    new_dataframes,     \* the dictionary new_dataframes, in insertion order
    month_no,           \* monthly_dict_85to21: (year, month) pairs the loop has consumed
    monthly_dict_85to21,\* the dictionary monthly_dict_85to21, in insertion order
    common_features,    \* the columns kept besides 'Values'
    station_no,         \* stations the forecasting or the evaluation loop has consumed
    forecasts,          \* the dictionary forecasts, in insertion order
    forecast_df,        \* forecast_df: per station, its row of forecasts
    all_actual,         \* the list all_actual; each value with the row it was read from
    all_predicted,      \* the list all_predicted
    listing,            \* to_dataframe: os.listdir(folder_path), in the order it lists
    file_idx,           \* to_dataframe: files the loop has consumed
    dataframes_dict,    \* to_dataframe: the dictionary, in insertion order
    coordinates,        \* to_dataframe: the dataframe coordinates (its hzbnr01 values)
    raised              \* history: the files whose iteration ended in "except Exception"

ingestVars == <<data_lines, line_no, data, dataframe>>
processVars == <<df_dict, processed>>
nearestVars == <<gw_row, coord_df, k_nearest, nearest>>
fillVars == <<series, filled, unpadded>>
sarimaVars == <<param_idx, seasonal_idx, best_aic, best_order, best_seasonal_order, fit_log>>
selectVars == <<target_corrs, threshold, frame_idx, feature_corr_sum, feature_count,
                selected_features>>
assembleVars == <<station_files, filled_dicts, pkl_files, data_df, row_no, new_dataframes, month_no,
                  monthly_dict_85to21, common_features, station_no, forecasts, forecast_df,
                  all_actual, all_predicted>>
folderVars == <<listing, file_idx, dataframes_dict, coordinates, raised>>
vars == <<pc, ingestVars, processVars, nearestVars, fillVars, sarimaVars, selectVars,
          assembleVars, folderVars>>

IdleIngest == data_lines = <<>> /\ line_no = 0 /\ data = <<>> /\ dataframe = <<>>
IdleProcess == df_dict = <<>> /\ processed = <<>>
IdleFill == series = <<>> /\ filled = <<>> /\ unpadded = <<>>
IdleNearest == gw_row = <<0, 0>> /\ coord_df = <<>> /\ k_nearest = 0 /\ nearest = <<>>
IdleSarima ==
    /\ param_idx = 0 /\ seasonal_idx = 0 /\ best_aic = 0
    /\ best_order = 0 /\ best_seasonal_order = 0 /\ fit_log = <<>>

IdleSelect ==
    /\ target_corrs = <<>> /\ threshold = <<>> /\ frame_idx = 0
    /\ feature_corr_sum = <<>> /\ feature_count = 0 /\ selected_features = <<>>

IdleAssemble ==
    /\ station_files = <<>> /\ filled_dicts = <<>> /\ pkl_files = <<>>
    /\ data_df = <<>> /\ row_no = 0 /\ new_dataframes = <<>>
    /\ month_no = 0 /\ monthly_dict_85to21 = <<>> /\ common_features = <<>>
    /\ station_no = 0 /\ forecasts = <<>> /\ forecast_df = <<>>
    /\ all_actual = <<>> /\ all_predicted = <<>>

IdleFolder ==
    /\ listing = <<>> /\ file_idx = 0 /\ dataframes_dict = <<>>
    /\ coordinates = <<>> /\ raised = {}

\* Each specification runs one stage; the variables of the other stages rest.
notIngest ==
    <<processVars, nearestVars, fillVars, sarimaVars, selectVars, assembleVars, folderVars>>
notProcess ==
    <<ingestVars, nearestVars, fillVars, sarimaVars, selectVars, assembleVars, folderVars>>
notNearest ==
    <<ingestVars, processVars, fillVars, sarimaVars, selectVars, assembleVars, folderVars>>
notFill ==
    <<ingestVars, processVars, nearestVars, sarimaVars, selectVars, assembleVars, folderVars>>
notSarima ==
    <<ingestVars, processVars, nearestVars, fillVars, selectVars, assembleVars, folderVars>>
notSelect ==
    <<ingestVars, processVars, nearestVars, fillVars, sarimaVars, assembleVars, folderVars>>
notAssemble ==
    <<ingestVars, processVars, nearestVars, fillVars, sarimaVars, selectVars, folderVars>>
notFolder ==
    <<ingestVars, processVars, nearestVars, fillVars, sarimaVars, selectVars, assembleVars>>
RestIngest ==
    IdleProcess /\ IdleNearest /\ IdleFill /\ IdleSarima /\ IdleSelect /\ IdleAssemble /\ IdleFolder
RestProcess ==
    IdleIngest /\ IdleNearest /\ IdleFill /\ IdleSarima /\ IdleSelect /\ IdleAssemble /\ IdleFolder
RestNearest ==
    IdleIngest /\ IdleProcess /\ IdleFill /\ IdleSarima /\ IdleSelect /\ IdleAssemble /\ IdleFolder
RestFill ==
    IdleIngest /\ IdleProcess /\ IdleNearest /\ IdleSarima /\ IdleSelect /\ IdleAssemble /\ IdleFolder
RestSarima ==
    IdleIngest /\ IdleProcess /\ IdleNearest /\ IdleFill /\ IdleSelect /\ IdleAssemble /\ IdleFolder
RestSelect ==
    IdleIngest /\ IdleProcess /\ IdleNearest /\ IdleFill /\ IdleSarima /\ IdleAssemble /\ IdleFolder
RestFolder ==
    /\ IdleIngest /\ IdleProcess /\ IdleNearest /\ IdleFill /\ IdleSarima /\ IdleSelect
    /\ IdleAssemble
RestAssemble ==
    IdleIngest /\ IdleProcess /\ IdleNearest /\ IdleFill /\ IdleSarima /\ IdleSelect /\ IdleFolder

----------------------------------------------------------------------------
(* Values *)

\* Every cell is a record [k, n, d]: a number n/d, np.nan, or the string "NaN".
nan == [k |-> "nan", n |-> 0, d |-> 1]
NaNStr == [k |-> "NaN", n |-> 0, d |-> 1]

\* Largest observed value drawn for an input series.
MaxVal == 2
Vals == 1..MaxVal

RECURSIVE Gcd(_, _)
Gcd(a, b) == IF b = 0 THEN a ELSE Gcd(b, a % b)

\* The rational n/d (n >= 0, d >= 1) in lowest terms.
Rat(n, d) == LET g == Gcd(n, d) IN [k |-> "num", n |-> n \div g, d |-> d \div g]
Num(v) == Rat(v, 1)
IsNum(v) == v.k = "num"
RatAdd(a, b) == Rat(a.n * b.d + b.n * a.d, a.d * b.d)
RatDiv(a, k) == Rat(a.n, a.d * k)
RatLess(a, b) == a.n * b.d < b.n * a.d

RECURSIVE SumVals(_)
SumVals(s) == IF s = <<>> THEN Num(0) ELSE RatAdd(Head(s), SumVals(Tail(s)))

\* pandas mean(): the mean of the values that are not missing, nan if none.
RECURSIVE NumsOf(_)
NumsOf(s) ==
    IF s = <<>> THEN <<>>
    ELSE IF IsNum(Head(s)) THEN <<Head(s)>> \o NumsOf(Tail(s))
         ELSE NumsOf(Tail(s))
Mean(s) == LET xs == NumsOf(s)
           IN IF xs = <<>> THEN nan ELSE RatDiv(SumVals(xs), Len(xs))

RECURSIVE Concat(_)
Concat(ss) == IF ss = <<>> THEN <<>> ELSE Head(ss) \o Concat(Tail(ss))

\* All sequences over S of length 0..n.
SeqsUpTo(S, n) == UNION {[1..k -> S] : k \in 0..n}

----------------------------------------------------------------------------
(* Calendar *)

\* Years of the span (62 in the script: 1960..2021), numbered from 1.
NumYears == 4
\* Months of a year (12 in the script).
YearLen == 2
\* Number of month starts of the span (744 in the script).
NumMonths == NumYears * YearLen
all_dates == [i \in 1..NumMonths |-> i]
\* Days of a month that an input date may fall on; day 1 is the month start.
Days == {1, 2}
\* Months an input date may fall in: the month before the span, its first two
\* months, its last month and the month after it.
InputMonths == {0, 1, 2, NumMonths, NumMonths + 1}
MonthOfYear(m) == ((m - 1) % YearLen) + 1
YearOf(m) == ((m - 1) \div YearLen) + 1

----------------------------------------------------------------------------
(* to_dataframe: the row loop of one file *)

\* Largest number of data lines of a file.
MaxLines == 3

\* The dates of the last two rows a file of the span can hold: the last month
\* start of the span and the month start after it (2021-12-01, 2022-01-01).
IngestDates == {<<NumMonths, 1>>, <<NumMonths + 1, 1>>}
NoDate == <<0, 0>>

\* A line is the list of its fields, line.split(';'): <<>> is a blank line, one
\* field is a line without ';'.  A date field is in the format with seconds
\* ("HMS"), the one without ("HM"), or in neither ("bad").  A value field may
\* hold one of the keywords "F", "K", "rekonstruiert aus Version 3->"; if not,
\* it is a decimal-comma number or a text np.float32 refuses (v = nan).
DateField == [fmt : {"HMS", "HM"}, date : IngestDates, kw : {FALSE}, v : {nan}]
                \cup {[fmt |-> "bad", date |-> NoDate, kw |-> FALSE, v |-> nan]}
ValueField == [fmt : {"bad"}, date : {NoDate}, kw : {FALSE}, v : {Num(1), nan}]
                \cup {[fmt |-> "bad", date |-> NoDate, kw |-> TRUE, v |-> nan]}
Line == {<<>>} \cup {<<f>> : f \in {[fmt |-> "bad", date |-> NoDate, kw |-> FALSE, v |-> nan]}}
            \cup {<<f, g>> : f \in DateField, g \in ValueField}

\* datetime.strptime with "%d.%m.%Y %H:%M:%S", then with "%d.%m.%Y %H:%M".
DateParses(f) == f.fmt \in {"HMS", "HM"}
HasSeparator(line) == Len(line) >= 2
HasKeyword(g) == g.kw

\* What one pass of the loop body does with a line: "skip" it (blank line,
\* unparseable date, keyword), "append" a record, or "break" out of the loop
\* (the unpacking of line.split(';')[:2] raised, caught by except Exception).
LineOutcome(line) ==
    IF line = <<>> THEN "skip"
    ELSE IF ~HasSeparator(line) THEN "break"
    ELSE IF ~DateParses(line[1]) THEN "skip"
    ELSE IF HasKeyword(line[2]) THEN "skip"
    ELSE "append"

RecordOf(line) == [m |-> line[1].date[1], d |-> line[1].date[2], v |-> line[2].v]

InitIngest ==
    /\ pc = "rows"
    /\ data_lines \in SeqsUpTo(Line, MaxLines)
    /\ line_no = 0
    /\ data = <<>>
    /\ dataframe = <<>>
    /\ RestIngest

\* One iteration of "for line in data_lines".
ParseLine ==
    /\ pc = "rows"
    /\ line_no < Len(data_lines)
    /\ LET line == data_lines[line_no + 1]
           out == LineOutcome(line)
       IN /\ data' = IF out = "append" THEN Append(data, RecordOf(line)) ELSE data
          /\ line_no' = line_no + 1
          /\ pc' = IF out = "break" THEN "frame" ELSE "rows"
    /\ UNCHANGED <<data_lines, dataframe, notIngest>>

\* The loop ran out of lines.
EndOfLines ==
    /\ pc = "rows"
    /\ line_no = Len(data_lines)
    /\ pc' = "frame"
    /\ UNCHANGED <<ingestVars, notIngest>>

\* "if data:": the dataframe of the file, its last row dropped.
CreateDataFrame ==
    /\ pc = "frame"
    /\ dataframe' = IF data # <<>> THEN << SubSeq(data, 1, Len(data) - 1) >> ELSE <<>>
    /\ pc' = "ingested"
    /\ UNCHANGED <<data_lines, line_no, data, notIngest>>

NextIngest == ParseLine \/ EndOfLines \/ CreateDataFrame
SpecIngest == InitIngest /\ [][NextIngest]_vars

\* The rows of a file that are well formed and carry no keyword, in order.
WellFormed(line) == HasSeparator(line) /\ DateParses(line[1]) /\ ~HasKeyword(line[2])
WellFormedRecords(lines) ==
    LET ok == SelectSeq(lines, WellFormed) IN [i \in 1..Len(ok) |-> RecordOf(ok[i])]

\* C4: a malformed row is skipped: when the file has been read, the accepted
\* records are those of all its well-formed rows, before and after any
\* malformed row.
C4_MalformedRowsSkipped == pc = "ingested" => data = WellFormedRecords(data_lines)

\* A record dated inside the span (1960-01 to 2021-12).
InSpan(r) == r.m >= 1 /\ r.m <= NumMonths

\* C14: the one row removed from a file's accepted rows is the row dated on
\* the month start after the span (2022-01-01): every accepted row dated inside
\* the span is kept in the file's dataframe, whatever the date of the last row.
C14_SpanRowsKept ==
    pc = "ingested" /\ data # <<>> =>
       /\ SelectSeq(dataframe[1], InSpan) = SelectSeq(data, InSpan)
       /\ Len(dataframe[1]) = Len(data) - 1
       /\ ~InSpan(data[Len(data)])

----------------------------------------------------------------------------
(* process_dataframes *)

\* Largest number of rows of an ingested series.
MaxRows == 3

\* A value to_dataframe stores: a float, or np.nan for a gap.
RawVals == {Num(v) : v \in Vals} \cup {nan}
RawRow == [m : InputMonths, d : Days, v : RawVals]

ValsOf(rows) == [i \in 1..Len(rows) |-> rows[i].v]

\* Date.dt.to_period('D').nunique() and Date.dt.to_period('M').nunique()
NUniqueDays(rows) == Cardinality({<<rows[i].m, rows[i].d>> : i \in 1..Len(rows)})
NUniqueMonths(rows) == Cardinality({rows[i].m : i \in 1..Len(rows)})

MinOf(S) == CHOOSE x \in S : \A y \in S : x <= y
MaxOf(S) == CHOOSE x \in S : \A y \in S : y <= x

\* set_index('Date').resample('MS').mean(): one row per month start from the
\* first to the last month of the data, the mean of the month's values.
Resample(rows) ==
    LET ms == {rows[i].m : i \in 1..Len(rows)}
        lo == MinOf(ms)
        hi == MaxOf(ms)
        InMonth(m) == LET T(r) == r.m = m IN SelectSeq(rows, T)
    IN [i \in 1..(hi - lo + 1) |->
          [m |-> lo + i - 1, d |-> 1, v |-> Mean(ValsOf(InMonth(lo + i - 1)))]]

\* set_index('Date') alone: the rows as they are, indexed by their dates.
SetIndex(rows) ==
    [i \in 1..Len(rows) |-> [m |-> rows[i].m, d |-> rows[i].d, v |-> rows[i].v]]

\* new_df.join(right, how='left').fillna("NaN"): for every month start of the
\* span, in order, one row per row of right with that date, or one missing row.
LeftJoinAllDates(right) ==
    LET Matches(s) == LET T(r) == r.m = s /\ r.d = 1 IN SelectSeq(right, T)
        RowsFor(s) ==
            IF Matches(s) = <<>> THEN << [month |-> s, Values |-> NaNStr] >>
            ELSE [j \in 1..Len(Matches(s)) |->
                    [month |-> s,
                     Values |-> IF Matches(s)[j].v = nan THEN NaNStr
                                ELSE Matches(s)[j].v]]
        joined == Concat([s \in 1..NumMonths |-> RowsFor(all_dates[s])])
    IN [index |-> [i \in 1..Len(joined) |-> joined[i].month],
        Values |-> [i \in 1..Len(joined) |-> joined[i].Values]]

ProcessOne(rows) ==
    IF rows # <<>> /\ NUniqueDays(rows) > NUniqueMonths(rows)
    THEN LeftJoinAllDates(Resample(rows))
    ELSE LeftJoinAllDates(SetIndex(rows))

InitProcess ==
    /\ pc = "process"
    /\ df_dict \in SeqsUpTo(RawRow, MaxRows)
    /\ processed = <<>>
    /\ RestProcess

ProcessDataframes ==
    /\ pc = "process"
    /\ processed' = ProcessOne(df_dict)
    /\ pc' = "processed"
    /\ UNCHANGED <<df_dict, notProcess>>

NextProcess == ProcessDataframes
SpecProcess == InitProcess /\ [][NextProcess]_vars

\* C1: after process_dataframes the time index is exactly the month starts of
\* the span, each once, in increasing order.
C1_IndexIsSpan == pc = "processed" => processed.index = all_dates

\* The input observations dated in month m: the values, missing or not, of
\* the rows of that calendar month.
InMonth(rows, m) == LET T(r) == r.m = m IN ValsOf(SelectSeq(rows, T))

\* C12: for every month of the span, the output has a value for the month,
\* which is the mean of the non-missing input observations dated in that
\* month, and the missing marker "NaN" when there is none; for series taken as
\* daily and for series taken as monthly.
C12_MonthlyMeans ==
    pc = "processed" =>
      \A m \in 1..NumMonths :
         /\ \E t \in 1..Len(processed.index) : processed.index[t] = m
         /\ \A t \in 1..Len(processed.index) :
               processed.index[t] = m =>
                  processed.Values[t] =
                     IF NumsOf(InMonth(df_dict, m)) = <<>> THEN NaNStr
                     ELSE Mean(InMonth(df_dict, m))

----------------------------------------------------------------------------
(* find_nearest_coordinates *)

\* Largest coordinate of a station; coordinates are whole numbers here.
MaxCoord == 1
\* Largest number of rows of the coordinate table df.
MaxStations == 3
\* Largest k asked for (the script asks for 1 and 3; the default is 20).
MaxK == 4

Point == (0..MaxCoord) \X (0..MaxCoord)

\* calculate_distance: the Euclidean distance, kept as its square, which
\* orders points as the distance does.
calculate_distance(coord1, coord2) ==
    (coord1[1] - coord2[1]) * (coord1[1] - coord2[1])
      + (coord1[2] - coord2[2]) * (coord1[2] - coord2[2])

\* distances = df.apply(... calculate_distance ..., axis=1)
Distances(row, df) == [i \in 1..Len(df) |-> calculate_distance(row, df[i])]

Injective(f) == \A i, j \in DOMAIN f : f[i] = f[j] => i = j
Ascending(dist, f) == \A i, j \in DOMAIN f : i < j => dist[f[i]] <= dist[f[j]]

\* argsort(kind="mergesort"): the positions by ascending value, equal values
\* by ascending position.
StableArgsort(dist) ==
    LET n == Len(dist)
        Rank(p) == Cardinality({q \in 1..n : \/ dist[q] < dist[p]
                                             \/ dist[q] = dist[p] /\ q < p}) + 1
    IN [i \in 1..n |-> CHOOSE p \in 1..n : Rank(p) = i]

\* A mutant of NSmallest: the first k rows, without looking at the distances.
NSmallest_head(dist, k) ==
    {[i \in 1..(IF k <= 0 THEN 0 ELSE IF k >= Len(dist) THEN Len(dist) ELSE k) |-> i]}

\* Series.nsmallest(k), keep='first': the results it may return, as sequences
\* of positions.  For k >= len it is sort_values().head(k), whose sort need not
\* be stable (equal values come in any order); otherwise the k-th smallest
\* value is found, and the values up to it are ordered by a stable argsort and
\* cut to k.
NSmallest(dist, k) ==
    LET n == Len(dist)
    IN IF k <= 0 THEN {<<>>}
       ELSE IF k >= n
       THEN {f \in [1..n -> 1..n] : Injective(f) /\ Ascending(dist, f)}
       ELSE {SubSeq(StableArgsort(dist), 1, k)}

InitNearest ==
    /\ pc = "nearest"
    /\ gw_row \in Point
    /\ coord_df \in SeqsUpTo(Point, MaxStations)
    /\ k_nearest \in 0..MaxK
    /\ nearest = <<>>
    /\ RestNearest

\* find_nearest_coordinates(gw_row, df, k): df.loc[distances.nsmallest(k).index]
FindNearestCoordinates ==
    /\ pc = "nearest"
    /\ \E res \in NSmallest(Distances(gw_row, coord_df), k_nearest) : nearest' = res
    /\ pc' = "found"
    /\ UNCHANGED <<gw_row, coord_df, k_nearest, notNearest>>

NextNearest == FindNearestCoordinates
SpecNearest == InitNearest /\ [][NextNearest]_vars

Min2(a, b) == IF a <= b THEN a ELSE b

\* C2: find_nearest_coordinates returns min(k, rows of df) distinct rows of df,
\* in ascending order of distance to the target, and no row left out is
\* strictly closer to the target than a returned row.
C2_NearestRows ==
    pc = "found" =>
      LET dist == Distances(gw_row, coord_df)
          n == Len(coord_df)
      IN /\ Len(nearest) = Min2(k_nearest, n)
         /\ \A i \in 1..Len(nearest) : nearest[i] \in 1..n
         /\ Injective(nearest)
         /\ Ascending(dist, nearest)
         /\ \A r \in 1..n : \A i \in 1..Len(nearest) :
               (\A j \in 1..Len(nearest) : nearest[j] # r) => ~(dist[r] < dist[nearest[i]])

\* A search that leaves rows out: fewer rows asked for than df holds, rows at
\* different distances, and the first row of df not the closest.
C2_Witness ==
    /\ pc = "found"
    /\ 0 < k_nearest /\ k_nearest < Len(coord_df)
    /\ nearest[1] # 1
    /\ \E r \in 1..Len(coord_df) :
          calculate_distance(gw_row, coord_df[r])
             > calculate_distance(gw_row, coord_df[nearest[Len(nearest)]])

----------------------------------------------------------------------------
(* nan_imputer, add_lag_and_rolling_mean, zero padding: one series *)

\* A dataframe is a record: its index (months) and one sequence of cells per
\* column.  'Values' is the first column of every series.
Col(df, name) == df[name]
Rows(df) == Len(df.index)

\* shift(i): the cell i rows up, np.nan for the first i rows.
Shift(col, i) == [t \in 1..Len(col) |-> IF t > i THEN col[t - i] ELSE nan]

\* A mutant of RollingMean: the mean of the values of the window that are not
\* missing.
RollingMean_skipna(col, window) ==
    [t \in 1..Len(col) |->
       IF t >= window THEN Mean(SubSeq(col, t - window + 1, t)) ELSE nan]

\* rolling(window).mean(): the mean of the window ending at the row, np.nan
\* unless the window holds `window` values that are not missing.
RollingMean(col, window) ==
    [t \in 1..Len(col) |->
       IF t >= window /\ \A u \in (t - window + 1)..t : IsNum(col[u])
       THEN Mean(SubSeq(col, t - window + 1, t))
       ELSE nan]

\* df.replace('NaN', np.nan)
ReplaceNaNStr(col) == [t \in 1..Len(col) |-> IF col[t] = NaNStr THEN nan ELSE col[t]]

\* first_valid_index(): the first row whose value is not missing; 0 for None.
FirstValid(col) ==
    IF \E t \in 1..Len(col) : IsNum(col[t])
    THEN MinOf({t \in 1..Len(col) : IsNum(col[t])})
    ELSE 0

\* df_copy.loc[first_valid_index:]: the row the slice starts at, which is the
\* first row bearing the label first_valid_index; .loc[None:] is the whole frame.
ValidStart(df) ==
    LET first_valid_index == FirstValid(ReplaceNaNStr(df.Values))
    IN IF first_valid_index = 0 THEN 1
       ELSE MinOf({t \in 1..Rows(df) : df.index[t] = df.index[first_valid_index]})

\* df_copy.update(valid_values) reindexes valid_values to the index of df_copy,
\* which raises ValueError when valid_values is not the whole frame and holds a
\* label twice.
NanImputerRaises(df) ==
    /\ ValidStart(df) > 1
    /\ \E t, u \in ValidStart(df)..Rows(df) : t # u /\ df.index[t] = df.index[u]

\* A mutant of NanImputerOne: it imputes over the whole series, its rows
\* before the first observation included.
NanImputerOne_all(df) ==
    LET col == ReplaceNaNStr(df.Values)
        month_mean(m) ==
            Mean(SelectSeq([t \in 1..Len(col) |->
                              IF MonthOfYear(df.index[t]) = m THEN col[t] ELSE nan], IsNum))
    IN [index |-> df.index,
        Values |-> [t \in 1..Len(col) |->
                      IF IsNum(col[t]) THEN col[t] ELSE month_mean(MonthOfYear(df.index[t]))]]

\* The body of nan_imputer's loop for one dataframe.
NanImputerOne(df) ==
    LET df_copy == ReplaceNaNStr(df.Values)
        start == ValidStart(df)
        in_valid(t) == t >= start
        month_mean(m) ==
            Mean([t \in 1..Len(df_copy) |->
                    IF in_valid(t) /\ MonthOfYear(df.index[t]) = m THEN df_copy[t] ELSE nan])
        \* valid_values after the loop over the months: fillna(month_mean)
        valid_values(t) ==
            IF IsNum(df_copy[t]) THEN df_copy[t] ELSE month_mean(MonthOfYear(df.index[t]))
    IN \* df_copy.update(valid_values): the cells of valid_values that are not
       \* missing overwrite those of df_copy
       [index |-> df.index,
        Values |-> [t \in 1..Len(df_copy) |->
                      IF in_valid(t) /\ IsNum(valid_values(t)) THEN valid_values(t)
                      ELSE df_copy[t]]]

\* The window of the rolling mean.
Window == 6

ColumnNames == <<"Values", "lag_1", "lag_2", "lag_3", "rolling_mean_original",
                 "rolling_mean_6_lag_1", "rolling_mean_6_lag_2", "rolling_mean_6_lag_3">>
ColumnSet == {ColumnNames[i] : i \in 1..Len(ColumnNames)}

\* add_lag_and_rolling_mean(df, window=6); column_name is 'Values'.
add_lag_and_rolling_mean(df) ==
    LET rolling == RollingMean(df.Values, Window)
    IN [index |-> df.index,
        Values |-> df.Values,
        lag_1 |-> Shift(df.Values, 1),
        lag_2 |-> Shift(df.Values, 2),
        lag_3 |-> Shift(df.Values, 3),
        rolling_mean_original |-> rolling,
        rolling_mean_6_lag_1 |-> Shift(rolling, 1),
        rolling_mean_6_lag_2 |-> Shift(rolling, 2),
        rolling_mean_6_lag_3 |-> Shift(rolling, 3)]

\* np.float32 holds a value to 24 significant bits; here a float32 is a
\* multiple of 1/F32Grid, and float64 values are exact.
F32Grid == 4
\* astype(np.float32) of one cell: the nearest float32.
AsFloat32(v) ==
    IF ~IsNum(v) THEN v
    ELSE Rat((2 * v.n * F32Grid + v.d) \div (2 * v.d), F32Grid)

\* A mutant of ZeroPad: the fill without the change of type.
ZeroPad_nocast(df) ==
    [c \in DOMAIN df |->
       IF c = "index" THEN df.index
       ELSE [t \in 1..Len(df[c]) |-> IF df[c][t] = nan THEN Num(0) ELSE df[c][t]]]

\* df.fillna(0, inplace=True); df = df.astype(np.float32)
ZeroPad(df) ==
    [c \in DOMAIN df |->
       IF c = "index" THEN df.index
       ELSE [t \in 1..Len(df[c]) |->
               AsFloat32(IF df[c][t] = nan THEN Num(0) ELSE df[c][t])]]

\* Number of months of the series the three steps are checked on (744 in
\* the script).
SeriesLen == 7

\* A series as process_dataframes is meant to leave it: one row per month,
\* the value of the month or the string "NaN".
ProcessedSeries ==
    {[index |-> [i \in 1..SeriesLen |-> i], Values |-> vs] :
        vs \in [1..SeriesLen -> {Num(v) : v \in Vals} \cup {NaNStr}]}

InitFill ==
    /\ pc = "impute"
    /\ series \in ProcessedSeries
    /\ filled = <<>>
    /\ unpadded = <<>>
    /\ RestFill

\* A mutant of DeepCopy: df_copy is the dataframe passed in.
DeepCopy_alias(df) == [object |-> "input", frame |-> df]

\* df.copy(deep=True): a new object holding the cells of df.
DeepCopy(df) == [object |-> "copy", frame |-> df]

\* filled_..._dict = nan_imputer(..._dict). replace(inplace=True) and update
\* write into the object df_copy names; new_dict is a new dictionary.
NanImputer ==
    /\ pc = "impute"
    /\ LET df_copy == DeepCopy(series)
           replaced == [index |-> series.index, Values |-> ReplaceNaNStr(series.Values)]
       IN IF NanImputerRaises(df_copy.frame)
          THEN /\ filled' = filled
               /\ series' = IF df_copy.object = "input" THEN replaced ELSE series
               /\ pc' = "raised"
          ELSE /\ filled' = NanImputerOne(df_copy.frame)
               /\ series' = IF df_copy.object = "input" THEN filled' ELSE series
               /\ pc' = "lag"
    /\ UNCHANGED <<unpadded, notFill>>

\* dictionary[key] = add_lag_and_rolling_mean(df)
AddLagAndRollingMean ==
    /\ pc = "lag"
    /\ filled' = add_lag_and_rolling_mean(filled)
    /\ pc' = "pad"
    /\ UNCHANGED <<series, unpadded, notFill>>

\* The zero-padding loop over filled_dict_list.
ZeroPadding ==
    /\ pc = "pad"
    /\ filled' = ZeroPad(filled)
    /\ unpadded' = filled
    /\ pc' = "padded"
    /\ UNCHANGED <<series, notFill>>

NextFill == NanImputer \/ AddLagAndRollingMean \/ ZeroPadding
SpecFill == InitFill /\ [][NextFill]_vars

\* The observed values of the month of the year of row t, in the input series.
SameMonthObserved(df, t) ==
    {u \in 1..Rows(df) :
        MonthOfYear(df.index[u]) = MonthOfYear(df.index[t]) /\ IsNum(df.Values[u])}
RECURSIVE SumOver(_, _)
SumOver(col, S) ==
    IF S = {} THEN Num(0)
    ELSE LET u == CHOOSE u \in S : TRUE IN RatAdd(col[u], SumOver(col, S \ {u}))
MeanOver(col, S) == RatDiv(SumOver(col, S), Cardinality(S))
Observed(df, t) == IsNum(df.Values[t])
BeforeFirstObservation(df, t) == \A u \in 1..t : ~Observed(df, u)

C9_PaddedOthersUnchanged ==
    pc = "padded" =>
      \A c \in ColumnSet : \A t \in 1..Rows(series) :
         /\ IsNum(filled[c][t])
         /\ filled[c][t] = IF unpadded[c][t] = nan THEN Num(0) ELSE unpadded[c][t]

\* C9, amended: after the zero padding no cell is missing, the cells that were
\* missing are 0 and every other cell is its value converted to float32.
C9_PaddedOthersFloat32 ==
    pc = "padded" =>
      /\ DOMAIN filled = ColumnSet \cup {"index"}
      /\ filled.index = series.index
      /\ \A c \in ColumnSet : \A t \in 1..Rows(series) :
            /\ IsNum(filled[c][t])
            /\ filled[c][t] = IF unpadded[c][t] = nan THEN Num(0)
                              ELSE AsFloat32(unpadded[c][t])

\* A padded series that had months before its first observation, missing lag
\* and rolling-mean cells, and a rolling mean that float32 does not hold.
C9_Witness ==
    /\ pc = "padded"
    /\ ~Observed(series, 1) /\ filled.Values[1] = Num(0)
    /\ unpadded.lag_3[3] = nan /\ filled.lag_3[3] = Num(0)
    /\ \E t \in 1..Rows(series) :
          /\ IsNum(unpadded.rolling_mean_original[t])
          /\ filled.rolling_mean_original[t] # unpadded.rolling_mean_original[t]

\* C17: nan_imputer does not modify the dataframe passed in; in its output
\* the index is that of the input and every value of 'Values' observed in the
\* input is equal.
C17_InputUnchangedObservationsKept ==
    /\ [][pc = "impute" => series' = series]_vars
    /\ [](pc = "lag" =>
            /\ filled.index = series.index
            /\ Len(filled.Values) = Rows(series)
            /\ \A t \in 1..Rows(series) :
                  Observed(series, t) => filled.Values[t] = series.Values[t])

\* nan_imputer has returned for a series with observations next to a gap it
\* filled, so that the output differs from the input.
C17_Witness ==
    /\ pc = "lag"
    /\ \E t, u \in 1..Rows(series) :
          /\ Observed(series, t) /\ filled.Values[t] = series.Values[t]
          /\ series.Values[u] = NaNStr /\ IsNum(filled.Values[u])
          /\ filled.Values[u] # series.Values[t]

\* The lag and rolling-mean columns, by the number of rows they are shifted.
LagColumns == <<"lag_1", "lag_2", "lag_3">>
RollingLagColumns == <<"rolling_mean_6_lag_1", "rolling_mean_6_lag_2", "rolling_mean_6_lag_3">>
Imputed_series == NanImputerOne(series)

\* C13 as claimed: lag_i at t is the first column at t-i, rolling_mean_original
\* at t is the mean of the first column over t-5..t, rolling_mean_6_lag_i at t
\* is rolling_mean_original at t-i, a value is missing exactly where its window
\* reaches before the start of the series, and the first column is unchanged.
C13_MissingOnlyBeforeStart ==
    pc = "pad" =>
      /\ filled.Values = Imputed_series.Values
      /\ \A t \in 1..Rows(series) :
            /\ \A i \in 1..3 :
                  /\ filled[LagColumns[i]][t] = nan <=> t <= i
                  /\ t > i => filled[LagColumns[i]][t] = filled.Values[t - i]
                  /\ filled[RollingLagColumns[i]][t] = nan <=> t < Window + i
                  /\ t > i => filled[RollingLagColumns[i]][t] = filled.rolling_mean_original[t - i]
            /\ filled.rolling_mean_original[t] = nan <=> t < Window
            /\ t >= Window =>
                  filled.rolling_mean_original[t] =
                     Mean(SubSeq(filled.Values, t - Window + 1, t))

\* C13, amended: lag_i at t is the first column at t-i and rolling_mean_6_lag_i
\* at t is rolling_mean_original at t-i, both missing for the first i rows;
\* rolling_mean_original at t is the mean of the first column over t-5..t if
\* the series has these six rows and none of their values is missing, and is
\* missing otherwise; a lag of a missing value is missing; the first column
\* and the index are unchanged.
C13_MissingWhereWindowIncomplete ==
    pc = "pad" =>
      /\ filled.Values = Imputed_series.Values
      /\ filled.index = series.index
      /\ \A t \in 1..Rows(series) :
            /\ \A i \in 1..3 :
                  /\ filled[LagColumns[i]][t] = IF t > i THEN filled.Values[t - i] ELSE nan
                  /\ filled[RollingLagColumns[i]][t] =
                        IF t > i THEN filled.rolling_mean_original[t - i] ELSE nan
            /\ filled.rolling_mean_original[t] =
                  IF t >= Window /\ \A u \in (t - Window + 1)..t : IsNum(filled.Values[u])
                  THEN MeanOver(filled.Values, (t - Window + 1)..t)
                  ELSE nan

\* A series whose first month is missing: the rolling mean of row 6 is missing
\* though the series has its six rows, the one of row 7 is a mean of six
\* values, and lag_1 of row 2 is missing.
C13_Witness ==
    /\ pc = "pad"
    /\ filled.Values[1] = nan
    /\ filled.lag_1[2] = nan
    /\ filled.rolling_mean_original[Window] = nan
    /\ IsNum(filled.rolling_mean_original[Window + 1])
    /\ filled.rolling_mean_original[Window + 1].d > 1
    /\ filled.rolling_mean_6_lag_1[Window + 1] = nan

----------------------------------------------------------------------------
(* sarima_optimizer_aic *)

\* Length of the list pdq (8 in the script: the triples over range(0, 2)).
NumOrders == 2
\* Length of the list seasonal_pdq (8 in the script).
NumSeasonal == 2
\* Largest AIC a fit returns; AIC values are whole numbers here.
MaxAic == 2

\* An order, and a seasonal order, is named by its position in its list.
pdq == [i \in 1..NumOrders |-> i]
seasonal_pdq == [j \in 1..NumSeasonal |-> j]

\* float("inf"): above every AIC.
Inf == MaxAic + 1
None == 0

\* A mutant of LowerAic: a later pair with an equal AIC replaces the best.
LowerAic_orEqual(aic, best) == aic <= best

\* "if aic < best_aic"
LowerAic(aic, best) == aic < best

InitSarima ==
    /\ pc = "search"
    /\ param_idx = 1
    /\ seasonal_idx = 1
    /\ best_aic = Inf
    /\ best_order = None
    /\ best_seasonal_order = None
    /\ fit_log = <<>>
    /\ RestSarima

\* The loops' step to the next pair, or out of the loops after the last.
NextPair ==
    IF seasonal_idx < NumSeasonal
    THEN param_idx' = param_idx /\ seasonal_idx' = seasonal_idx + 1 /\ pc' = "search"
    ELSE IF param_idx < NumOrders
    THEN param_idx' = param_idx + 1 /\ seasonal_idx' = 1 /\ pc' = "search"
    ELSE param_idx' = param_idx /\ seasonal_idx' = seasonal_idx /\ pc' = "return"

\* One pass of the loop body in which the model fits, with some AIC.
FitSucceeds ==
    /\ pc = "search"
    /\ \E aic \in 1..MaxAic :
          /\ IF LowerAic(aic, best_aic)
             THEN /\ best_aic' = aic
                  /\ best_order' = pdq[param_idx]
                  /\ best_seasonal_order' = seasonal_pdq[seasonal_idx]
             ELSE UNCHANGED <<best_aic, best_order, best_seasonal_order>>
          /\ fit_log' = Append(fit_log, [param |-> pdq[param_idx],
                                         param_seasonal |-> seasonal_pdq[seasonal_idx],
                                         aic |-> aic])
    /\ NextPair
    /\ UNCHANGED notSarima

\* One pass of the loop body in which SARIMAX or fit raises: "continue".
FitRaises ==
    /\ pc = "search"
    /\ fit_log' = Append(fit_log, [param |-> pdq[param_idx],
                                   param_seasonal |-> seasonal_pdq[seasonal_idx],
                                   aic |-> None])
    /\ NextPair
    /\ UNCHANGED <<best_aic, best_order, best_seasonal_order, notSarima>>

\* return best_order, best_seasonal_order
ReturnBest ==
    /\ pc = "return"
    /\ pc' = "returned"
    /\ UNCHANGED <<sarimaVars, notSarima>>

NextSarima == FitSucceeds \/ FitRaises \/ ReturnBest
SpecSarima == InitSarima /\ [][NextSarima]_vars

Fitted == {i \in 1..Len(fit_log) : fit_log[i].aic # None}
\* The first of the fitted tries whose AIC no fitted try undercuts.
FirstLowest ==
    MinOf({i \in Fitted : \A j \in Fitted : fit_log[i].aic <= fit_log[j].aic})

----------------------------------------------------------------------------
(* average_correlation_feature_selection *)

\* Largest number of dataframes of the dictionary.
MaxFrames == 2
\* A correlation is a multiple of 1/CorrScale between -1 and 1, or NaN (the
\* correlation with a column that is constant in the dataframe).
CorrScale == 1

\* The columns other than 'Values', in column order.
FeatureNames == <<"lag_1", "rolling_mean_original">>
FeatureSet == {FeatureNames[i] : i \in 1..Len(FeatureNames)}

Corr == [nan : {FALSE}, n : (0 - CorrScale)..CorrScale] \cup {[nan |-> TRUE, n |-> 0]}
Thresholds == {[n |-> 0, d |-> 1], [n |-> 1, d |-> 2], [n |-> 1, d |-> 1]}

\* Series + Series on the same index: NaN wherever either is NaN.
SeriesAdd(a, b) ==
    [f \in DOMAIN a |-> IF a[f].nan \/ b[f].nan THEN [nan |-> TRUE, n |-> 0]
                        ELSE [nan |-> FALSE, n |-> a[f].n + b[f].n]]

\* feature_corr_sum / feature_count, as the fraction n / d
AvgCorr(sum, count) ==
    [f \in DOMAIN sum |-> [nan |-> sum[f].nan, n |-> sum[f].n, d |-> count * CorrScale]]

Abs(x) == IF x < 0 THEN 0 - x ELSE x

\* A mutant of Exceeds: an average equal to the threshold is selected too.
Exceeds_orEqual(avg, t) == ~avg.nan /\ Abs(avg.n) * t.d >= t.n * avg.d

\* avg_corr.abs() > threshold, for one feature; False for NaN.
Exceeds(avg, t) == ~avg.nan /\ Abs(avg.n) * t.d > t.n * avg.d

\* avg_corr[avg_corr.abs() > threshold].index.tolist()
SelectedFeatures(avg, t) ==
    LET Keep(f) == Exceeds(avg[f], t) IN SelectSeq(FeatureNames, Keep)

InitSelect ==
    /\ pc = "corr"
    /\ target_corrs \in SeqsUpTo([FeatureSet -> Corr], MaxFrames)
    /\ threshold \in Thresholds
    /\ frame_idx = 0
    /\ feature_corr_sum = <<>>
    /\ feature_count = 0
    /\ selected_features = <<>>
    /\ RestSelect

\* One pass of "for df in data_dict.values()".
AccumulateCorrelation ==
    /\ pc = "corr"
    /\ frame_idx < Len(target_corrs)
    /\ LET target_corr == target_corrs[frame_idx + 1]
       IN feature_corr_sum' = IF feature_count = 0 THEN target_corr
                              ELSE SeriesAdd(feature_corr_sum, target_corr)
    /\ feature_count' = feature_count + 1
    /\ frame_idx' = frame_idx + 1
    /\ UNCHANGED <<pc, target_corrs, threshold, selected_features, notSelect>>

\* After the loop: the average, the selection and the return.  With an empty
\* dictionary "None / 0" raises TypeError.
SelectFeatures ==
    /\ pc = "corr"
    /\ frame_idx = Len(target_corrs)
    /\ IF feature_count = 0
       THEN pc' = "raised" /\ UNCHANGED selected_features
       ELSE /\ selected_features' =
                 SelectedFeatures(AvgCorr(feature_corr_sum, feature_count), threshold)
            /\ pc' = "selected"
    /\ UNCHANGED <<target_corrs, threshold, frame_idx, feature_corr_sum, feature_count,
                   notSelect>>

NextSelect == AccumulateCorrelation \/ SelectFeatures
SpecSelect == InitSelect /\ [][NextSelect]_vars

RECURSIVE SumCorr(_, _)
SumCorr(f, i) == IF i = 0 THEN 0 ELSE target_corrs[i][f].n + SumCorr(f, i - 1)
DefinedEverywhere(f) == \A i \in 1..Len(target_corrs) : ~target_corrs[i][f].nan
\* |average of the correlations of f over all dataframes| > threshold
AverageAbove(f) ==
    /\ DefinedEverywhere(f)
    /\ Abs(SumCorr(f, Len(target_corrs))) * threshold.d
          > threshold.n * Len(target_corrs) * CorrScale

----------------------------------------------------------------------------
(* new_dataframes and monthly_dict_85to21 *)

\* The series of a station as the first phase of the script leaves it in a
\* filled dictionary: processed, imputed, with lags and rolling means, padded.
FilledFrame(rows) ==
    ZeroPad(add_lag_and_rolling_mean(NanImputerOne(ProcessOne(rows))))

\* The value the station of offset a reports for month m.
Observation(m, a) == Num(((m + a) % MaxVal) + 1)

\* The rows of a file of monthly means: one row per month start, from month
\* `from` to the end of the span.
MonthlyRows(from, a) ==
    [i \in 1..(NumMonths - from + 1) |->
        [m |-> from + i - 1, d |-> 1, v |-> Observation(from + i - 1, a)]]

\* Two rows of the same month start that hold a gap ('L\"ucke').
GapTwice(at) == <<[m |-> at, d |-> 1, v |-> nan], [m |-> at, d |-> 1, v |-> nan]>>

\* The rows of a file of daily values: two days of every month.
DailyRows(a) ==
    Concat([m \in 1..NumMonths |->
              <<[m |-> m, d |-> 1, v |-> Num(a)], [m |-> m, d |-> 2, v |-> Observation(m, 0)]>>])

FirstMonthOf(year) == (year - 1) * YearLen + 1

\* The rows of a complete file with a gap in the first month of the next to
\* last year, and whose station reports other values in the last year.
GapThenShift ==
    [m \in 1..NumMonths |->
        [m |-> m, d |-> 1,
         v |-> IF m = FirstMonthOf(NumYears - 1) THEN nan
               ELSE IF m >= FirstMonthOf(NumYears) THEN Observation(m, 1)
               ELSE Observation(m, 0)]]

\* Files of a monthly network: two complete ones, one with a gap among its
\* observations, and files that begin with a gap reported twice for the first
\* month of one of the last three years.
MonthlyFiles ==
    {MonthlyRows(1, 0), MonthlyRows(1, 1), GapThenShift}
        \cup {GapTwice(FirstMonthOf(y)) \o MonthlyRows(FirstMonthOf(y) + 1, 0) :
                 y \in (NumYears - 2)..NumYears}

\* The file-name keys of the stations of each network.
GwKeys == <<<<1, 0>>, <<1, 1>>>>
GwTempKeys == <<<<2, 0>>>>
RainKeys == <<<<3, 0>>, <<3, 1>>, <<3, 2>>>>

\* A file that makes nan_imputer raise ends the script before the dictionaries
\* are filled.
GoodMonthlyFiles == {g \in MonthlyFiles : ~NanImputerRaises(ProcessOne(g))}
\* The files of the daily network: its stations report different values.
RainFiles ==
    {[key \in {RainKeys[j] : j \in 1..Len(RainKeys)} |->
         DailyRows(((key[2] + r) % MaxVal) + 1)] : r \in Vals}

\* nan_imputer(process_dataframes(dictionary)) for the rows of the files of a
\* network.
Imputed(rows_dict) == [key \in DOMAIN rows_dict |-> NanImputerOne(ProcessOne(rows_dict[key]))]

\* A station id is an integer in a coordinate table and a string of digits as
\* a dictionary key: str() of an integer, int() of a key.
RECURSIVE Str(_)
Str(n) == IF n < 10 THEN <<n>> ELSE Append(Str(n \div 10), n % 10)
RECURSIVE IntOf(_)
IntOf(key) == IF key = <<>> THEN 0 ELSE 10 * IntOf(SubSeq(key, 1, Len(key) - 1)) + key[Len(key)]

\* data_sources: the column of 'data', the prefix and the filled dictionary of
\* each network; of the ten networks of the script, one with one nearest
\* station and one with three.
data_sources ==
    <<[key |-> "nearest_gw_temp", prefix |-> "gw_temp"],
      [key |-> "nearest_rain", prefix |-> "rain"]>>

\* A column name is <<prefix, slot, column>>: <<"", "", c>> is the station's own
\* column c, <<p, "2", c>> is 'p_2_c' and <<p, "mean", c>> is 'p_c_mean'.
OwnName(c) == <<"", "", c>>
Slot == <<"1", "2", "3">>
NeighbourName(prefix, i, c) == <<prefix, Slot[i], c>>
MeanName(prefix, c) == <<prefix, "mean", c>>

\* A dataframe with named columns: its index and a function from column names
\* to columns.
Frame(df) ==
    [index |-> df.index, col |-> [nm \in {OwnName(c) : c \in ColumnSet} |-> df[nm[3]]]]
\* source_df.rename(columns=lambda x: f'{prefix}_{i + 1}_{x}')
Rename(df, prefix, i) ==
    [index |-> df.index,
     col |-> [nm \in {NeighbourName(prefix, i, c) : c \in ColumnSet} |-> df[nm[3]]]]
\* pd.DataFrame()
EmptyDataFrame == [index |-> <<>>, col |-> <<>>]

\* left.join(right, how='left'): for every row of left, in order, one row per
\* row of right with the same label, or one row with right's columns missing.
LeftJoin(left, right) ==
    LET Matches(t) == LET T(u) == right.index[u] = left.index[t]
                      IN SelectSeq([u \in 1..Len(right.index) |-> u], T)
        pairs == Concat([t \in 1..Len(left.index) |->
                    IF Matches(t) = <<>> THEN << <<t, 0>> >>
                    ELSE [j \in 1..Len(Matches(t)) |-> <<t, Matches(t)[j]>>]])
    IN [index |-> [p \in 1..Len(pairs) |-> left.index[pairs[p][1]]],
        col |-> [nm \in DOMAIN left.col |->
                    [p \in 1..Len(pairs) |-> left.col[nm][pairs[p][1]]]]
                @@ [nm \in DOMAIN right.col |->
                      [p \in 1..Len(pairs) |->
                          IF pairs[p][2] = 0 THEN nan ELSE right.col[nm][pairs[p][2]]]]]

\* (a + b + c) / 3 on three cells; a missing cell makes the result missing.
Mean3(a, b, c) ==
    IF IsNum(a) /\ IsNum(b) /\ IsNum(c) THEN RatDiv(RatAdd(RatAdd(a, b), c), 3) ELSE nan

\* The assignments of the loop over `columns` when i == 2.
WithMeans(df, prefix) ==
    [index |-> df.index,
     col |-> [nm \in {MeanName(prefix, c) : c \in ColumnSet} |->
                 [t \in 1..Len(df.index) |->
                     Mean3(df.col[NeighbourName(prefix, 3, nm[3])][t],
                           df.col[NeighbourName(prefix, 2, nm[3])][t],
                           df.col[NeighbourName(prefix, 1, nm[3])][t])]]
             @@ df.col]

\* The iterations i, i + 1, ... of "for i, code_value in enumerate(row[key])",
\* i counted from 1.
RECURSIVE JoinNearest(_, _, _, _)
JoinNearest(df, prefix, codes, i) ==
    IF i > Len(codes) THEN df
    ELSE LET code_str == Str(codes[i])
             source_dict == filled_dicts[prefix]
             source_df == IF code_str \in DOMAIN source_dict
                          THEN Rename(source_dict[code_str], prefix, i)
                          ELSE EmptyDataFrame
             joined == LeftJoin(df, source_df)
         IN JoinNearest(IF i = 3 THEN WithMeans(joined, prefix) ELSE joined,
                        prefix, codes, i + 1)

\* The iterations s, s + 1, ... of "for key, (prefix, source_dict) in data_sources.items()".
RECURSIVE JoinSources(_, _, _)
JoinSources(df, row, s) ==
    IF s > Len(data_sources) THEN df
    ELSE JoinSources(JoinNearest(df, data_sources[s].prefix, row[data_sources[s].key], 1),
                     row, s + 1)

\* df[f"{prefix}_{i + 1}_{column}"] raises KeyError when i == 2 and one of the
\* three nearest stations had no dataframe to join.
AssembleRaises(row) ==
    \E s \in 1..Len(data_sources) :
       LET codes == row[data_sources[s].key]
       IN /\ Len(codes) >= 3
          /\ \E i \in 1..3 : Str(codes[i]) \notin DOMAIN filled_dicts[data_sources[s].prefix]

\* A dictionary in insertion order is a sequence of [key, df]; d[key] = df.
Keys(d) == [i \in 1..Len(d) |-> d[i].key]
HasKey(d, key) == \E i \in 1..Len(d) : d[i].key = key
Get(d, key) == d[CHOOSE i \in 1..Len(d) : d[i].key = key].df
Put(d, key, df) ==
    IF HasKey(d, key)
    THEN [i \in 1..Len(d) |-> IF d[i].key = key THEN [key |-> key, df |-> df] ELSE d[i]]
    ELSE Append(d, [key |-> key, df |-> df])

\* The elements of a finite set, in some order.
RECURSIVE SetToSeq(_)
SetToSeq(S) ==
    IF S = {} THEN <<>> ELSE LET x == CHOOSE x \in S : TRUE IN <<x>> \o SetToSeq(S \ {x})

\* A filled dictionary as a dictionary in insertion order of dataframes with
\* named columns.
AsDict(filled_dict) ==
    LET keys == SetToSeq(DOMAIN filled_dict)
    IN [i \in 1..Len(keys) |-> [key |-> keys[i], df |-> Frame(filled_dict[keys[i]])]]

\* pickle.dump(item, f) writes the dictionary as a stream of instructions: per
\* entry its key, the index of its dataframe, one instruction per column, and
\* the instruction that stores the entry.
Dump_nocolumns(item) ==
    Concat([e \in 1..Len(item) |->
        <<[op |-> "key", arg |-> item[e].key], [op |-> "index", arg |-> item[e].df.index],
          [op |-> "setitem", arg |-> <<>>]>>])
Dump(item) ==
    Concat([e \in 1..Len(item) |->
        LET names == SetToSeq(DOMAIN item[e].df.col)
        IN <<[op |-> "key", arg |-> item[e].key], [op |-> "index", arg |-> item[e].df.index]>>
           \o [c \in 1..Len(names) |->
                 [op |-> "column", arg |-> <<names[c], item[e].df.col[names[c]]>>]]
           \o <<[op |-> "setitem", arg |-> <<>>]>>])

\* pickle.load(file) runs the instructions: an entry is built from a "key"
\* instruction up to its "setitem", which stores it in the dictionary.
EntryAt(bytes, start, stop) ==
    LET index_at == {j \in start..stop : bytes[j].op = "index"}
        columns_at == {j \in start..stop : bytes[j].op = "column"}
    IN [key |-> bytes[start].arg,
        df |-> [index |-> IF index_at = {} THEN <<>> ELSE bytes[MaxOf(index_at)].arg,
                col |-> [nm \in {bytes[j].arg[1] : j \in columns_at} |->
                           bytes[MaxOf({j \in columns_at : bytes[j].arg[1] = nm})].arg[2]]]]
RECURSIVE PutAll(_, _, _)
PutAll(d, entries, i) ==
    IF i > Len(entries) THEN d
    ELSE PutAll(Put(d, entries[i].key, entries[i].df), entries, i + 1)
Load(bytes) ==
    LET is_key(j) == bytes[j].op = "key"
        is_setitem(j) == bytes[j].op = "setitem"
        keys_at == SelectSeq([j \in 1..Len(bytes) |-> j], is_key)
        stores_at == SelectSeq([j \in 1..Len(bytes) |-> j], is_setitem)
    IN PutAll(<<>>, [e \in 1..Len(stores_at) |-> EntryAt(bytes, keys_at[e], stores_at[e])], 1)

\* The global names bound to the filled dictionaries, in the order in which
\* the script defines them; the loop variable `dictionary` is a global too,
\* defined after them and bound to the dictionary of the iteration.
filled_dict_list == <<"gw_temp", "gw", "rain">>
Globals(dictionary) ==
    <<[name |-> "filled_filtered_groundwater_dict", ref |-> "gw"],
      [name |-> "filled_gw_temp_dict", ref |-> "gw_temp"],
      [name |-> "filled_rain_dict", ref |-> "rain"],
      [name |-> "dictionary", ref |-> dictionary]>>
\* [name for name in globals() if globals()[name] is dictionary][0]
DictName(dictionary) ==
    LET g == Globals(dictionary)
    IN g[MinOf({i \in 1..Len(g) : g[i].ref = dictionary})].name

\* File names: f'{dict_name}.pkl' and the two names the script spells out.
PklName(name) == <<name, "pkl">>
NewDataframesPkl == PklName("new_dataframes")
MonthlyDictPkl == PklName("monthly_dict_85to21")

\* A file holds the bytes written and, for the record, the run that wrote it.
\* The directory is empty at the start, or holds the files of a previous run.
PreviousBytes == Dump(<<[key |-> <<0>>, df |-> EmptyDataFrame]>>)
StartingFiles ==
    {<<>>,
     [f \in {NewDataframesPkl, MonthlyDictPkl, PklName("filled_filtered_groundwater_dict")} |->
         [bytes |-> PreviousBytes, run |-> "previous"]]}
\* save_to_pickle(item, filename)
save_to_pickle(dir, item, filename) ==
    (filename :> [bytes |-> Dump(item), run |-> "this"]) @@ dir

\* All functions from the entries of keys to S.
DictsOver(keys, S) == [{keys[i] : i \in 1..Len(keys)} -> S]

\* The row of 'data' of a groundwater station: its nearest station of the
\* one-station network and its three nearest of the other, in order.
Rotations(keys) ==
    {[i \in 1..Len(keys) |-> keys[((i + r - 1) % Len(keys)) + 1]] : r \in 0..(Len(keys) - 1)}
DataRows(n, order) ==
    [g \in 1..n |->
        [hzbnr01 |-> IntOf(GwKeys[g]),
         nearest_gw_temp |-> <<IntOf(GwTempKeys[1])>>,
         nearest_rain |-> [i \in 1..Len(order) |-> IntOf(order[i])]]]

InitAssemble ==
    /\ pc = "lag"
    /\ \E n \in 0..Len(GwKeys) :
          /\ \E gw \in DictsOver(SubSeq(GwKeys, 1, n), GoodMonthlyFiles) :
             \E gw_temp \in DictsOver(GwTempKeys, GoodMonthlyFiles) :
             \E rain \in RainFiles :
                station_files = [gw |-> gw, gw_temp |-> gw_temp, rain |-> rain]
          /\ \E order \in Rotations(RainKeys) : data_df = DataRows(n, order)
    /\ filled_dicts = [prefix \in DOMAIN station_files |-> Imputed(station_files[prefix])]
    /\ pkl_files \in StartingFiles
    /\ row_no = 0
    /\ new_dataframes = <<>>
    /\ month_no = 0
    /\ monthly_dict_85to21 = <<>>
    /\ common_features = <<>>
    /\ station_no = 0
    /\ forecasts = <<>>
    /\ forecast_df = <<>>
    /\ all_actual = <<>>
    /\ all_predicted = <<>>
    /\ RestAssemble

\* "for dictionary in filled_dict_list: for key, df in dictionary.items():
\* dictionary[key] = add_lag_and_rolling_mean(df)"
AddLags ==
    /\ pc = "lag"
    /\ filled_dicts' = [prefix \in DOMAIN filled_dicts |->
                          [key \in DOMAIN filled_dicts[prefix] |->
                              add_lag_and_rolling_mean(filled_dicts[prefix][key])]]
    /\ pc' = "pad"
    /\ UNCHANGED <<station_files, pkl_files, data_df, row_no, new_dataframes, month_no,
                   monthly_dict_85to21, common_features, station_no, forecasts, forecast_df,
                   all_actual, all_predicted, notAssemble>>

\* The zero-padding loop over filled_dict_list.
ZeroPadAll ==
    /\ pc = "pad"
    /\ filled_dicts' = [prefix \in DOMAIN filled_dicts |->
                          [key \in DOMAIN filled_dicts[prefix] |->
                              ZeroPad(filled_dicts[prefix][key])]]
    /\ pc' = "save_filled"
    /\ UNCHANGED <<station_files, pkl_files, data_df, row_no, new_dataframes, month_no,
                   monthly_dict_85to21, common_features, station_no, forecasts, forecast_df,
                   all_actual, all_predicted, notAssemble>>

\* The iterations i, i + 1, ... of the loop that pickles the dictionaries of
\* filled_dict_list.
RECURSIVE SaveFilledFrom(_, _)
SaveFilledFrom(dir, i) ==
    IF i > Len(filled_dict_list) THEN dir
    ELSE SaveFilledFrom(save_to_pickle(dir, AsDict(filled_dicts[filled_dict_list[i]]),
                                       PklName(DictName(filled_dict_list[i]))),
                        i + 1)
SaveFilledDicts ==
    /\ pc = "save_filled"
    /\ pkl_files' = SaveFilledFrom(pkl_files, 1)
    /\ pc' = "assemble"
    /\ UNCHANGED <<station_files, filled_dicts, data_df, row_no, new_dataframes, month_no,
                   monthly_dict_85to21, common_features, station_no, forecasts, forecast_df,
                   all_actual, all_predicted, notAssemble>>

\* One iteration of "for idx, row in data.iterrows()".
AssembleStation ==
    /\ pc = "assemble"
    /\ row_no < Len(data_df)
    /\ LET row == data_df[row_no + 1]
           code == Str(row.hzbnr01)
       IN IF code \notin DOMAIN filled_dicts.gw
          THEN new_dataframes' = new_dataframes /\ pc' = pc
          ELSE IF AssembleRaises(row)
          THEN new_dataframes' = new_dataframes /\ pc' = "raised_assemble"
          ELSE /\ new_dataframes' =
                     Put(new_dataframes, code, JoinSources(Frame(filled_dicts.gw[code]), row, 1))
               /\ pc' = pc
    /\ row_no' = row_no + 1
    /\ UNCHANGED <<station_files, filled_dicts, pkl_files, data_df, month_no, monthly_dict_85to21, common_features,
                   station_no, forecasts, forecast_df, all_actual, all_predicted, notAssemble>>

\* The loop over the rows of 'data' ran out.
AssembleDone ==
    /\ pc = "assemble"
    /\ row_no = Len(data_df)
    /\ pc' = "monthly"
    /\ UNCHANGED <<assembleVars, notAssemble>>

\* The first year of monthly_dict_85to21 (1985 in the script) and its keys
\* f"{year}_{month:02d}", the pair <<year, month>>, in the order of the loops.
FirstMonthlyYear == NumYears - 2
MonthlyKeys ==
    [k \in 1..((NumYears - FirstMonthlyYear + 1) * YearLen) |->
        <<FirstMonthlyYear + ((k - 1) \div YearLen), ((k - 1) % YearLen) + 1>>]

\* df[mask] with its index replaced by df_id, for the mask of one year and month.
FilteredDf(df_id, df, key) ==
    LET mask(t) == YearOf(df.index[t]) = key[1] /\ MonthOfYear(df.index[t]) = key[2]
        rows == SelectSeq([t \in 1..Len(df.index) |-> t], mask)
    IN [index |-> [j \in 1..Len(rows) |-> df_id],
        col |-> [nm \in DOMAIN df.col |-> [j \in 1..Len(rows) |-> df.col[nm][rows[j]]]]]

\* pd.concat(frames): the rows of the frames in order, over the union of
\* their columns.
ConcatFrames(frames) ==
    LET names == UNION {DOMAIN frames[i].col : i \in 1..Len(frames)}
        Cells(i, nm) == IF nm \in DOMAIN frames[i].col THEN frames[i].col[nm]
                        ELSE [j \in 1..Len(frames[i].index) |-> nan]
    IN [index |-> Concat([i \in 1..Len(frames) |-> frames[i].index]),
        col |-> [nm \in names |-> Concat([i \in 1..Len(frames) |-> Cells(i, nm)])]]

\* monthly_data: the filtered frames of the stations that have the month.
MonthlyData(key) ==
    LET all == [i \in 1..Len(new_dataframes) |->
                   FilteredDf(new_dataframes[i].key, new_dataframes[i].df, key)]
        any(f) == f.index # <<>>
    IN SelectSeq(all, any)

\* One iteration of the loops over year and month.
MonthlyEntry ==
    /\ pc = "monthly"
    /\ month_no < Len(MonthlyKeys)
    /\ LET key == MonthlyKeys[month_no + 1]
           monthly_data == MonthlyData(key)
       IN monthly_dict_85to21' =
             IF monthly_data # <<>>
             THEN Put(monthly_dict_85to21, key, ConcatFrames(monthly_data))
             ELSE monthly_dict_85to21
    /\ month_no' = month_no + 1
    /\ UNCHANGED <<pc, station_files, filled_dicts, pkl_files, data_df, row_no, new_dataframes, common_features,
                   station_no, forecasts, forecast_df, all_actual, all_predicted, notAssemble>>

\* The loops over year and month ran out.
MonthlyDone ==
    /\ pc = "monthly"
    /\ month_no = Len(MonthlyKeys)
    /\ pc' = "save"
    /\ UNCHANGED <<assembleVars, notAssemble>>

\* Lines 504 to 509: the two dictionaries are pickled.
SaveSnapshots ==
    /\ pc = "save"
    /\ pkl_files' = save_to_pickle(save_to_pickle(pkl_files, monthly_dict_85to21, MonthlyDictPkl),
                                   new_dataframes, NewDataframesPkl)
    /\ pc' = "load"
    /\ UNCHANGED <<station_files, filled_dicts, data_df, row_no, new_dataframes, month_no,
                   monthly_dict_85to21, common_features, station_no, forecasts, forecast_df,
                   all_actual, all_predicted, notAssemble>>

\* Lines 511 to 519: the two dictionaries are read back.
LoadSnapshots ==
    /\ pc = "load"
    /\ new_dataframes' = Load(pkl_files[NewDataframesPkl].bytes)
    /\ monthly_dict_85to21' = Load(pkl_files[MonthlyDictPkl].bytes)
    /\ pc' = "prepare"
    /\ UNCHANGED <<station_files, filled_dicts, pkl_files, data_df, row_no, month_no,
                   common_features, station_no, forecasts, forecast_df, all_actual,
                   all_predicted, notAssemble>>

----------------------------------------------------------------------------
(* Feature selection, the forecasts and their evaluation *)

\* The number of stations drawn for the grid search (10 in the script).
SampleSize == 1
\* The number of months forecast (24 in the script, two years; one year here).
Horizon == YearLen
\* The first year of the training data (2000 in the script).
FirstTrainYear == NumYears - 1
forecast_months == [i \in 1..Horizon |-> <<NumYears, i>>]

\* Comparison of two keys 'YYYY_MM' as strings.
KeyGE(k1, k2) == k1[1] > k2[1] \/ (k1[1] = k2[1] /\ k1[2] >= k2[2])

\* The lists average_correlation_feature_selection may return.
FeatureChoices ==
    {<<OwnName("lag_1")>>, <<OwnName("lag_1"), MeanName("rain", "Values")>>}

IsForecastMonth(key) == \E i \in 1..Horizon : forecast_months[i] = key
InTrain(key) == ~IsForecastMonth(key) /\ KeyGE(key, <<FirstTrainYear, 1>>)

\* The rows of pd.concat over the snapshots of the given keys, restricted to
\* 'Values' and common_features; each row is kept with the key of its snapshot.
RowsOf(keys) ==
    Concat([i \in 1..Len(keys) |->
        LET df == Get(monthly_dict_85to21, keys[i])
        IN [j \in 1..Len(df.index) |->
              [station |-> df.index[j],
               key |-> keys[i],
               Values |-> df.col[OwnName("Values")][j],
               exog |-> [f \in 1..Len(common_features) |-> df.col[common_features[f]][j]]]]])
all_data == RowsOf(SelectSeq(Keys(monthly_dict_85to21), InTrain))
test_data == RowsOf(SelectSeq(Keys(monthly_dict_85to21), IsForecastMonth))

\* index.unique(): the labels in the order of their first row.
RECURSIVE Unique(_)
Unique(labels) ==
    IF labels = <<>> THEN <<>>
    ELSE LET init == Unique(SubSeq(labels, 1, Len(labels) - 1))
             last == labels[Len(labels)]
         IN IF \E i \in 1..Len(init) : init[i] = last THEN init ELSE Append(init, last)
Stations == Unique([j \in 1..Len(all_data) |-> all_data[j].station])

\* frame.loc[station]
Loc(rows, station) == LET T(r) == r.station = station IN SelectSeq(rows, T)

\* SARIMAX(...).fit().get_forecast(steps, exog).predicted_mean: the model is
\* not computed; a forecast is known by the station, the number h of its step
\* after the end of the sample, the snapshots of the rows of the sample and
\* those of the rows of exog.  Its index starts at the length of the sample.
PredictedMean(station_data, steps) ==
    [h \in 1..steps |->
        [station |-> station_data[1].station,
         h |-> h,
         after |-> station_data[Len(station_data)].key,
         sample |-> [j \in 1..Len(station_data) |-> station_data[j].key],
         exog |-> [j \in 1..steps |->
                     station_data[Len(station_data) - steps + j].key]]]

\* Lines 521 to 713: the feature selection raises TypeError on an empty
\* dictionary, random.sample raises ValueError on fewer dataframes than it is
\* asked for; then common_features is set.
Prepare ==
    /\ pc = "prepare"
    /\ IF monthly_dict_85to21 = <<>>
       THEN pc' = "raised_select" /\ common_features' = common_features
       ELSE IF Len(new_dataframes) < SampleSize
       THEN pc' = "raised_sample" /\ common_features' = common_features
       ELSE pc' = "forecast" /\ common_features' \in FeatureChoices
    /\ UNCHANGED <<station_files, filled_dicts, pkl_files, data_df, row_no, new_dataframes, month_no,
                   monthly_dict_85to21, station_no, forecasts, forecast_df, all_actual,
                   all_predicted, notAssemble>>

\* One iteration of "for station in all_data.index.unique()".
ForecastStation ==
    /\ pc = "forecast"
    /\ station_no < Len(Stations)
    /\ LET station == Stations[station_no + 1]
           station_data == Loc(all_data, station)
       IN forecasts' = Put(forecasts, station,
                           [start |-> Len(station_data),
                            values |-> PredictedMean(station_data, Horizon)])
    /\ station_no' = station_no + 1
    /\ UNCHANGED <<pc, station_files, filled_dicts, pkl_files, data_df, row_no, new_dataframes, month_no,
                   monthly_dict_85to21, common_features, forecast_df, all_actual,
                   all_predicted, notAssemble>>

\* forecast_df = pd.DataFrame(forecasts).T has one column per label of the
\* forecasts; giving it 24 column names raises ValueError if it has not 24.
LabelForecasts ==
    /\ pc = "forecast"
    /\ station_no = Len(Stations)
    /\ LET columns == UNION {forecasts[i].df.start..(forecasts[i].df.start + Horizon - 1) :
                               i \in 1..Len(forecasts)}
       IN IF Cardinality(columns) # Horizon
          THEN pc' = "raised_columns" /\ forecast_df' = forecast_df
          ELSE /\ pc' = "evaluate"
               /\ forecast_df' = [i \in 1..Len(forecasts) |->
                                     [key |-> forecasts[i].key, df |-> forecasts[i].df.values]]
    /\ station_no' = 0
    /\ UNCHANGED <<station_files, filled_dicts, pkl_files, data_df, row_no, new_dataframes, month_no,
                   monthly_dict_85to21, common_features, forecasts, all_actual,
                   all_predicted, notAssemble>>

\* One iteration of "for station in forecast_df.index".
EvaluateStation ==
    /\ pc = "evaluate"
    /\ station_no < Len(forecast_df)
    /\ LET station == forecast_df[station_no + 1].key
           actual_values == Loc(test_data, station)
           predicted_values == forecast_df[station_no + 1].df
       IN /\ all_actual' = all_actual \o
                 [j \in 1..Len(actual_values) |->
                    [station |-> station, key |-> actual_values[j].key,
                     Values |-> actual_values[j].Values]]
          /\ all_predicted' = all_predicted \o predicted_values
    /\ station_no' = station_no + 1
    /\ UNCHANGED <<pc, station_files, filled_dicts, pkl_files, data_df, row_no, new_dataframes, month_no,
                   monthly_dict_85to21, common_features, forecasts, forecast_df, notAssemble>>

\* smape(np.array(all_actual), np.array(all_predicted)): arrays of different
\* lengths cannot be subtracted (ValueError).
GeneralSmape ==
    /\ pc = "evaluate"
    /\ station_no = Len(forecast_df)
    /\ pc' = IF Len(all_actual) # Len(all_predicted) THEN "raised_smape" ELSE "evaluated"
    /\ UNCHANGED <<assembleVars, notAssemble>>

NextAssemble ==
    \/ AddLags \/ ZeroPadAll \/ SaveFilledDicts \/ SaveSnapshots \/ LoadSnapshots
    \/ AssembleStation \/ AssembleDone \/ MonthlyEntry \/ MonthlyDone
    \/ Prepare \/ ForecastStation \/ LabelForecasts \/ EvaluateStation \/ GeneralSmape
SpecAssemble == InitAssemble /\ [][NextAssemble]_vars

WrittenInThisRun(filename) ==
    filename \in DOMAIN pkl_files /\ pkl_files[filename].run = "this"

\* C11: when new_dataframes.pkl and monthly_dict_85to21.pkl are about to be
\* read, each was written in this run, after the loops that build its
\* dictionary had ended, and holds that dictionary; the dictionary read is
\* the dictionary written; no pickle of a filled dictionary is written before
\* the lag features and the zero padding, and the one written holds the
\* dictionary with its lag and rolling-mean columns, zero padded.
C11_SnapshotsWrittenBeforeRead ==
    /\ pc = "load" =>
         /\ row_no = Len(data_df) /\ month_no = Len(MonthlyKeys)
         /\ WrittenInThisRun(NewDataframesPkl) /\ WrittenInThisRun(MonthlyDictPkl)
         /\ Load(pkl_files[NewDataframesPkl].bytes) = new_dataframes
         /\ Load(pkl_files[MonthlyDictPkl].bytes) = monthly_dict_85to21
    /\ pc = "prepare" =>
         /\ WrittenInThisRun(NewDataframesPkl) /\ WrittenInThisRun(MonthlyDictPkl)
         /\ new_dataframes = Load(pkl_files[NewDataframesPkl].bytes)
         /\ monthly_dict_85to21 = Load(pkl_files[MonthlyDictPkl].bytes)
    /\ \A i \in 1..Len(filled_dict_list) :
          LET prefix == filled_dict_list[i]
              filename == PklName(DictName(prefix))
          IN /\ WrittenInThisRun(filename) => pc \notin {"lag", "pad", "save_filled"}
             /\ pc = "assemble" /\ row_no = 0 =>
                  /\ WrittenInThisRun(filename)
                  /\ Load(pkl_files[filename].bytes) =
                        AsDict([key \in DOMAIN station_files[prefix] |->
                                   FilledFrame(station_files[prefix][key])])

\* Two augmented frames were read back over the files of a previous run.
C11_Witness ==
    /\ pc = "prepare"
    /\ Len(new_dataframes) = 2
    /\ Len(monthly_dict_85to21) = Len(MonthlyKeys)
    /\ \A f \in DOMAIN pkl_files : pkl_files[f].run = "this"

RowOfData(key) == data_df[CHOOSE g \in 1..Len(data_df) : Str(data_df[g].hzbnr01) = key]

\* C10: in every augmented frame, a network with three nearest stations has,
\* for each of the eight columns, a mean column that equals at each row the
\* arithmetic mean of the columns of the three nearest stations; a network
\* with one nearest station has no mean column; and the frame has the index
\* and the columns of the station's own dataframe.
C10_AugmentedFrame ==
    \A e \in 1..Len(new_dataframes) :
       LET df == new_dataframes[e].df
           own == filled_dicts.gw[new_dataframes[e].key]
           row == RowOfData(new_dataframes[e].key)
       IN /\ \A s \in 1..Len(data_sources) : \A c \in ColumnSet :
                LET prefix == data_sources[s].prefix
                IN IF Len(row[data_sources[s].key]) = 3
                   THEN /\ MeanName(prefix, c) \in DOMAIN df.col
                        /\ \A t \in 1..Len(df.index) :
                              df.col[MeanName(prefix, c)][t] =
                                 MeanOver([i \in 1..3 |-> df.col[NeighbourName(prefix, i, c)][t]],
                                          1..3)
                   ELSE MeanName(prefix, c) \notin DOMAIN df.col
          /\ df.index = own.index
          /\ \A c \in ColumnSet : df.col[OwnName(c)] = own[c]

\* The rows of an entry of monthly_dict_85to21 that bear the id of a station.
RowsOfStation(entry, id) == {j \in 1..Len(entry.index) : entry.index[j] = id}

\* C7: monthly_dict_85to21 has an entry for every month from the first month
\* of 1985 to the last of 2021 and no other; every entry has exactly one row
\* per station of new_dataframes and no other row, and that row is the row
\* of the station's augmented frame for the month.
C7_MonthlySnapshots ==
    pc = "prepare" =>
      /\ Keys(monthly_dict_85to21) = MonthlyKeys
      /\ \A k \in 1..Len(monthly_dict_85to21) :
            LET key == monthly_dict_85to21[k].key
                entry == monthly_dict_85to21[k].df
            IN /\ \A j \in 1..Len(entry.index) : HasKey(new_dataframes, entry.index[j])
               /\ \A e \in 1..Len(new_dataframes) :
                     LET df == new_dataframes[e].df
                         rows == RowsOfStation(entry, new_dataframes[e].key)
                     IN /\ Cardinality(rows) = 1
                        /\ \A j \in rows : \E t \in 1..Len(df.index) :
                              /\ YearOf(df.index[t]) = key[1]
                              /\ MonthOfYear(df.index[t]) = key[2]
                              /\ \A nm \in DOMAIN df.col : entry.col[nm][j] = df.col[nm][t]

MonthNumber(key) == (key[1] - 1) * YearLen + key[2]

\* C6: for every station of the training data the forecasting loop stores
\* Horizon forecasts, which are labelled without error and stand in order for
\* the months of forecast_months; and the evaluation pairs the i-th forecast
\* of a station with the actual value of that station in the i-th of these
\* months.
C6_ForecastsPaired ==
    /\ pc \notin {"raised_columns", "raised_smape"}
    /\ pc = "evaluate" =>
         \A s \in 1..Len(Stations) :
            /\ HasKey(forecast_df, Stations[s])
            /\ LET values == Get(forecast_df, Stations[s])
               IN /\ Len(values) = Horizon
                  /\ \A i \in 1..Horizon :
                        /\ values[i].station = Stations[s]
                        /\ values[i].h = i
                        /\ MonthNumber(values[i].after) + i = MonthNumber(forecast_months[i])
    /\ pc \in {"evaluate", "evaluated"} /\ station_no = Len(forecast_df) =>
         /\ Len(all_actual) = Len(all_predicted)
         /\ Len(all_predicted) = Len(forecast_df) * Horizon
         /\ \A j \in 1..Len(all_predicted) :
               j <= Len(all_actual) =>
                 /\ all_actual[j].station = all_predicted[j].station
                 /\ all_actual[j].key = forecast_months[all_predicted[j].h]

----------------------------------------------------------------------------
(* to_dataframe: the loop over the files of a folder *)

\* Largest number of files of a folder.
MaxFiles == 3

\* A key is filename[-10:-4], a sequence of characters: the decimal digits
\* 0..9 stand for themselves, SuperscriptTwo for a character str.isdigit()
\* accepts and int() refuses, Letter for a character that is no digit.
SuperscriptTwo == 10
Letter == 11
IsDecimalChar(c) == c \in 0..9
IsDigitChar(c) == IsDecimalChar(c) \/ c = SuperscriptTwo

\* key.isdigit()
IsDigit(key) == key # <<>> /\ \A i \in 1..Len(key) : IsDigitChar(key[i])
\* int(key) raises ValueError
IntRaises(key) == key = <<>> \/ \E i \in 1..Len(key) : ~IsDecimalChar(key[i])

FileKeys == {<<1>>, <<0, 1>>, <<2, SuperscriptTwo>>, <<Letter>>}

\* The hzbnr01 values of tip_coordinates.
tip_coordinates == {1, 2}

\* What the loop body asks of a file: whether its name ends with ".csv",
\* whether open and readlines succeed, whether a line starts with "Werte:",
\* whether that line holds "Invalid", and how many rows the row loop accepts.
FileKinds ==
    {[csv |-> FALSE, opens |-> TRUE, werte |-> TRUE, invalid |-> FALSE, rows |-> 2],
     [csv |-> TRUE, opens |-> FALSE, werte |-> TRUE, invalid |-> FALSE, rows |-> 2],
     [csv |-> TRUE, opens |-> TRUE, werte |-> FALSE, invalid |-> FALSE, rows |-> 2],
     [csv |-> TRUE, opens |-> TRUE, werte |-> TRUE, invalid |-> TRUE, rows |-> 2],
     [csv |-> TRUE, opens |-> TRUE, werte |-> TRUE, invalid |-> FALSE, rows |-> 0],
     [csv |-> TRUE, opens |-> TRUE, werte |-> TRUE, invalid |-> FALSE, rows |-> 2]}

\* The file at position i of a listing; its stem tells it from the other files
\* of the folder.
FolderFile(i, kind, key) ==
    [stem |-> i, key |-> key, csv |-> kind.csv, opens |-> kind.opens, werte |-> kind.werte,
     invalid |-> kind.invalid, rows |-> kind.rows]
Listings ==
    UNION {{[i \in 1..n |-> FolderFile(i, f[i][1], f[i][2])] : f \in [1..n -> FileKinds \X FileKeys]} :
             n \in 0..MaxFiles}

\* pd.DataFrame(): no column, no row.
NoCoordinates == [columns |-> <<>>, hzbnr01 |-> {}]

\* tip_coordinates[tip_coordinates['hzbnr01'].isin(int_keys)]
IntKeys(d) == {IntOf(d[i].key) : i \in {j \in 1..Len(d) : IsDigit(d[j].key)}}
Matched(d) == [columns |-> <<"x", "y", "hzbnr01">>, hzbnr01 |-> tip_coordinates \cap IntKeys(d)]

\* One iteration of "for filename in os.listdir(folder_path)" from the state
\* st = [dict, coords]: the state it leaves, and whether it ended in the
\* handler "except Exception: continue".
ReadFile(st, file) ==
    LET same == [dict |-> st.dict, coords |-> st.coords, raise |-> FALSE]
    IN IF ~file.csv THEN same
       ELSE IF ~file.opens THEN [same EXCEPT !.raise = TRUE]
       ELSE IF ~file.werte THEN same
       ELSE IF file.invalid THEN same
       ELSE IF file.rows = 0 THEN same
       ELSE LET df == [file |-> file.stem, rows |-> file.rows - 1]
                d == Put(st.dict, file.key, df)
            IN IF \E i \in 1..Len(d) : IsDigit(d[i].key) /\ IntRaises(d[i].key)
               THEN [dict |-> d, coords |-> st.coords, raise |-> TRUE]
               ELSE [dict |-> d, coords |-> Matched(d), raise |-> FALSE]

InitFolder ==
    /\ pc = "files"
    /\ listing \in Listings
    /\ file_idx = 0
    /\ dataframes_dict = <<>>
    /\ coordinates = NoCoordinates
    /\ raised = {}
    /\ RestFolder

\* One iteration of the loop over the files.
NextFile ==
    /\ pc = "files"
    /\ file_idx < Len(listing)
    /\ LET file == listing[file_idx + 1]
           out == ReadFile([dict |-> dataframes_dict, coords |-> coordinates], file)
       IN /\ dataframes_dict' = out.dict
          /\ coordinates' = out.coords
          /\ raised' = IF out.raise THEN raised \cup {file.stem} ELSE raised
    /\ file_idx' = file_idx + 1
    /\ UNCHANGED <<pc, listing, notFolder>>

\* return dataframes_dict, coordinates
ReturnFolder ==
    /\ pc = "files"
    /\ file_idx = Len(listing)
    /\ pc' = "returned"
    /\ UNCHANGED <<folderVars, notFolder>>

NextFolder == NextFile \/ ReturnFolder
SpecFolder == InitFolder /\ [][NextFolder]_vars

\* to_dataframe on a folder that lists the files from position i on.
RECURSIVE ToDataframe(_, _, _)
ToDataframe(st, files, i) ==
    IF i > Len(files) THEN st
    ELSE LET out == ReadFile(st, files[i])
         IN ToDataframe([dict |-> out.dict, coords |-> out.coords], files, i + 1)

\* A CSV file without a line starting with "Werte:", or whose iteration raised.
Unusable(file) == file.csv /\ ((file.opens /\ ~file.werte) \/ file.stem \in raised)
Usable(file) == ~Unusable(file)

\* C15: a CSV file without a "Werte:" line, or whose parsing raises,
\* contributes no entry, and the dictionary and the coordinates returned are
\* those of the folder without that file, in whatever order the files are
\* listed.
C15_UnusableFilesLeaveNoTrace ==
    pc = "returned" =>
      LET without == ToDataframe([dict |-> <<>>, coords |-> NoCoordinates],
                                 SelectSeq(listing, Usable), 1)
      IN /\ \A i \in 1..Len(listing) :
               Unusable(listing[i]) =>
                  \A j \in 1..Len(dataframes_dict) : dataframes_dict[j].df.file # listing[i].stem
         /\ dataframes_dict = without.dict
         /\ coordinates = without.coords

\* C18: every station id of the coordinates returned, written as a string, is
\* a key of the dictionary returned.
C18_CoordinatesAreKeys ==
    pc = "returned" =>
      \A id \in coordinates.hzbnr01 : HasKey(dataframes_dict, Str(id))

----------------------------------------------------------------------------
(* The training and the test data *)

\* The keys 'YYYY_MM' of the years from..to, in order.
KeysOfYears(from, to) ==
    [i \in 1..((to - from + 1) * YearLen) |->
        <<from + ((i - 1) \div YearLen), ((i - 1) % YearLen) + 1>>]

\* The rows of a file dated before the first forecast month.
BeforeForecast(rows) ==
    LET T(r) == r.m < FirstMonthOf(NumYears) IN SelectSeq(rows, T)

\* C16: the training data holds exactly the snapshots of the keys from the
\* first training year to the year before the forecast months, the test data
\* exactly those of the forecast months, and no value of a forecast month is
\* used to fit a model: every target value of the training data is the value
\* the script computes from the station's rows dated before the forecast
\* months.
C16_TrainingFreeOfTestValues ==
    pc = "forecast" =>
      /\ SelectSeq(Keys(monthly_dict_85to21), InTrain) = KeysOfYears(FirstTrainYear, NumYears - 1)
      /\ SelectSeq(Keys(monthly_dict_85to21), IsForecastMonth) = forecast_months
      /\ \A j \in 1..Len(all_data) : ~IsForecastMonth(all_data[j].key)
      /\ \A j \in 1..Len(test_data) : ~InTrain(test_data[j].key)
      /\ \A j \in 1..Len(all_data) :
            LET row == all_data[j]
                from_past == FilledFrame(BeforeForecast(station_files.gw[row.station]))
            IN \E t \in 1..Len(from_past.index) :
                  /\ from_past.index[t] = MonthNumber(row.key)
                  /\ from_past.Values[t] = row.Values

====
